---- MODULE Spec2Model ----
(***************************************************************************)
(* Model of the trade lifecycle engine of bot.py: the trade parser, the    *)
(* trade store (trades.json), the price evaluator, the polling cycle and   *)
(* the manual edit / clear commands, with the handlers split at their      *)
(* await points (asyncio: a coroutine is suspended only at an await),      *)
(* the listing command and the numeric extractor.                          *)
(*                                                                         *)
(* Prices are small positive integers; a text line is a label and a        *)
(* payload of whitespace-separated tokens. The extractor is also modelled  *)
(* on the characters of a line, with floats held in thousandths.           *)
(***************************************************************************)
EXTENDS Integers, Sequences, FiniteSets, TLC

\* ------------------------------------------------------------------ bounds
MaxMsgs == 2        \* announcements received in a run
MaxPrice == 3       \* quotes are 1..MaxPrice
MaxStored == 21     \* trades stored when the listing is asked for
MaxLineLen == 3     \* characters of the short lines given to the extractor

\* Python's None (sl, be_price, a failed fetch, target_index); numbers are >= 1.
None == 0

Prices == 1..MaxPrice

\* --------------------------------------------------------------- sequences
InSeq(x, s) == \E k \in 1..Len(s) : s[k] = x

Occurrences(x, s) == Cardinality({k \in 1..Len(s) : s[k] = x})

\* max(entries), min(entries), max(tps), min(tps) of a non-empty list
max(s) == CHOOSE m \in {s[k] : k \in 1..Len(s)} : \A k \in 1..Len(s) : s[k] <= m

min(s) == CHOOSE m \in {s[k] : k \in 1..Len(s)} : \A k \in 1..Len(s) : s[k] >= m

\* ------------------------------------------------------------------ strings
\* str.upper() on the tokens and symbols of the model
upper(s) ==
    CASE s = "long" -> "LONG"
      [] s = "short" -> "SHORT"
      [] s = "Buy" -> "BUY"
      [] s = "sell" -> "SELL"
      [] s = "xrp" -> "XRP"
      [] s = "btc" -> "BTC"
      [] s = "usdt" -> "USDT"
      [] s = "sol" -> "SOL"
      [] s = "hello" -> "HELLO"
      [] OTHER -> s

\* str.lower() on the labels and edit fields of the model
lower(s) ==
    CASE s = "Entry" -> "entry"
      [] s = "PE" -> "pe"
      [] s = "SL" -> "sl"
      [] s = "TP1" -> "tp1"
      [] s = "TP2" -> "tp2"
      [] s = "TP" -> "tp"
      [] s = "Note" -> "note"
      [] OTHER -> s

\* any(ch.isalnum() for ch in token): false for a decorative glyph only
any_isalnum(tok) == tok \notin {"##", "--"}

\* `sym in pair` for the upper-cased symbols and pairs of the model
Contains(pair, sym) ==
    \/ sym = pair
    \/ pair = "BTC/USDT" /\ sym \in {"BTC", "USDT"}

\* lower.startswith(prefixes): the labels of the model and their prefixes
startswith(s, prefixes) ==
    \/ s \in prefixes
    \/ s \in {"tp1", "tp2", "tp3", "tp0", "tpx"} /\ "tp" \in prefixes
    \/ s = "pending" /\ "pe" \in prefixes

\* float(token): the value of a numeric token, None when there is no number
float(tok) ==
    CASE tok = "1" -> 1
      [] tok = "2" -> 2
      [] tok = "3" -> 3
      [] tok = "4" -> 4
      [] tok = "2,0" -> 2
      [] OTHER -> None

\* extract_floats: the numbers of a payload, left to right
RECURSIVE extract_floats(_)
extract_floats(payload) ==
    IF payload = <<>> THEN <<>>
    ELSE IF float(Head(payload)) = None THEN extract_floats(Tail(payload))
    ELSE <<float(Head(payload))>> \o extract_floats(Tail(payload))

\* ------------------------------------------------------------------- parser
\* The side keywords the parser recognises
sides == {"LONG", "SHORT", "BUY", "SELL"}

\* One body line: the entries / sl / tps found so far, updated by the line
ScanLine(acc, line) ==
    LET lowered == lower(line.label)
        nums == extract_floats(line.payload)
    IN  IF nums = <<>> THEN acc
        ELSE IF startswith(lowered, {"entry", "entrée", "entree", "pe"})
             THEN IF acc.entries = <<>> THEN [acc EXCEPT !.entries = nums] ELSE acc
        ELSE IF startswith(lowered, {"sl"})
             THEN IF acc.sl = None THEN [acc EXCEPT !.sl = nums[1]] ELSE acc
        ELSE IF startswith(lowered, {"tp"})
             THEN [acc EXCEPT !.tps = acc.tps \o nums]
        ELSE acc

RECURSIVE ScanLines(_, _)
ScanLines(acc, lines) ==
    IF lines = <<>> THEN acc
    ELSE ScanLines(ScanLine(acc, Head(lines)), Tail(lines))

\* `if not entries or sl is None: return None`
incomplete_no_entries(entries, sl) == entries = <<>>

incomplete(entries, sl) == entries = <<>> \/ sl = None

\* The side stored for a recognised side keyword: tokens[k].upper()
StoredSide(keyword) == upper(keyword)

\* parse_trade_message: <<trade>>, or <<>> when the text is not a call
parse_trade_message(text, message_id, now) ==
    LET tokens0 == text.first
        tokens == IF tokens0 # <<>> /\ ~any_isalnum(tokens0[1]) /\ Len(tokens0) > 1
                  THEN Tail(tokens0) ELSE tokens0
    IN  IF Len(tokens) < 2 THEN <<>>
        ELSE IF upper(tokens[1]) \notin sides /\ upper(tokens[2]) \notin sides THEN <<>>
        ELSE
          LET sideFirst == upper(tokens[1]) \in sides
              side == IF sideFirst THEN StoredSide(tokens[1]) ELSE StoredSide(tokens[2])
              pair == IF sideFirst THEN upper(tokens[2]) ELSE upper(tokens[1])
              found == ScanLines([entries |-> <<>>, sl |-> None, tps |-> <<>>], text.lines)
          IN  IF incomplete(found.entries, found.sl) THEN <<>>
              ELSE << [ origin_message_id |-> message_id,
                        pair |-> pair,
                        side |-> side,
                        entry |-> found.entries[1],
                        entries |-> found.entries,
                        sl |-> found.sl,
                        tps |-> found.tps,
                        hit_tps |-> <<>>,
                        hit_entries |-> <<>>,
                        sl_note |-> "",
                        created_at |-> now ] >>

\* The announcements of the model: the first lines and the bodies
FirstLines ==
    { <<"##", "LONG", "BTC/USDT">>, <<"xrp", "short">>, <<"Buy", "BTC/USDT">>,
      <<"SELL", "xrp">>, <<"hello", "BTC/USDT">>, <<"LONG">> }

Bodies ==
    { << [label |-> "Entry", payload |-> <<"3">>], [label |-> "SL", payload |-> <<"1">>],
         [label |-> "TP1", payload |-> <<"2">>], [label |-> "TP2", payload |-> <<"3">>] >>,
      << [label |-> "PE", payload |-> <<"2", "3">>], [label |-> "Note", payload |-> <<"--">>],
         [label |-> "SL", payload |-> <<"4">>], [label |-> "TP", payload |-> <<"1">>] >>,
      << [label |-> "Entry", payload |-> <<"2">>], [label |-> "TP1", payload |-> <<"3">>] >> }

\* ---------------------------------------------------------- price evaluator
IsLong(side) == side \in {"LONG", "BUY"}

IsShort(side) == side \in {"SHORT", "SELL"}

\* The index appended to a hit list for the level at position k (enumerate is 0-based)
HitIndexOneBased(k) == k

HitIndex(k) == k - 1

\* `i not in hit_xxx and <price reaches level>`: whether index i is appended
MarksAlways(i, hits, reached) == reached

Marks(i, hits, reached) == ~InSeq(i, hits) /\ reached

\* for i, level in enumerate(levels): append i when not yet in hits and reached.
\* atOrBelow: the comparison is price <= level, else price >= level.
RECURSIVE ScanHits(_, _, _, _, _)
ScanHits(levels, hits, price, atOrBelow, k) ==
    IF k > Len(levels) THEN hits
    ELSE LET reached == IF atOrBelow THEN price <= levels[k] ELSE price >= levels[k]
             hits2 == IF Marks(HitIndex(k), hits, reached)
                      THEN Append(hits, HitIndex(k)) ELSE hits
         IN  ScanHits(levels, hits2, price, atOrBelow, k + 1)

\* The break-even price of a trade, None when there is none
be_price_first_entry(side, entries, entry) ==
    IF entries # <<>> THEN entries[1] ELSE entry

be_price(side, entries, entry) ==
    IF entries # <<>>
    THEN IF IsLong(side) THEN max(entries)
         ELSE IF IsShort(side) THEN min(entries)
         ELSE None
    ELSE entry

\* The condition of the auto break-even: TP1 hit now, not before, and sl set
auto_be_no_first_time(tp1_now_hit, tp1_was_hit, sl) == tp1_now_hit /\ sl # None

auto_be(tp1_now_hit, tp1_was_hit, sl) == tp1_now_hit /\ ~tp1_was_hit /\ sl # None

\* The closure check on a side, a stop, the take-profits and a price:
\* <<should_close, reason>>
closure_last_tp(side, sl, tps, price) ==
    IF IsLong(side)
    THEN IF sl # None /\ price <= sl THEN <<TRUE, "SL">>
         ELSE IF tps # <<>> /\ price >= tps[Len(tps)] THEN <<TRUE, "TP">>
         ELSE <<FALSE, "">>
    ELSE IF IsShort(side)
    THEN IF sl # None /\ price >= sl THEN <<TRUE, "SL">>
         ELSE IF tps # <<>> /\ price <= tps[Len(tps)] THEN <<TRUE, "TP">>
         ELSE <<FALSE, "">>
    ELSE <<FALSE, "">>

closure(side, sl, tps, price) ==
    IF IsLong(side)
    THEN IF sl # None /\ price <= sl THEN <<TRUE, "SL">>
         ELSE IF tps # <<>> /\ price >= max(tps) THEN <<TRUE, "TP">>
         ELSE <<FALSE, "">>
    ELSE IF IsShort(side)
    THEN IF sl # None /\ price >= sl THEN <<TRUE, "SL">>
         ELSE IF tps # <<>> /\ price <= min(tps) THEN <<TRUE, "TP">>
         ELSE <<FALSE, "">>
    ELSE <<FALSE, "">>

\* trade["sl"] = be_price; trade["sl_note"] = "BE"
break_even_into_entries(trade, be) == [trade EXCEPT !.entries = <<be>>, !.sl_note = "BE"]

break_even(trade, be) == [trade EXCEPT !.sl = be, !.sl_note = "BE"]

\* update_trade_with_price: the trade as mutated, should_close, the reason,
\* and whether the break-even assignment was made
update_trade_with_price(trade, price) ==
    LET side == upper(trade.side)
        entries == trade.entries
        tps == trade.tps
        sl == trade.sl
        hit_entries ==
            IF IsLong(side) THEN ScanHits(entries, trade.hit_entries, price, TRUE, 1)
            ELSE IF IsShort(side) THEN ScanHits(entries, trade.hit_entries, price, FALSE, 1)
            ELSE trade.hit_entries
        tp1_was_hit == InSeq(0, trade.hit_tps)
        hit_tps ==
            IF IsLong(side) THEN ScanHits(tps, trade.hit_tps, price, FALSE, 1)
            ELSE IF IsShort(side) THEN ScanHits(tps, trade.hit_tps, price, TRUE, 1)
            ELSE trade.hit_tps
        tp1_now_hit == InSeq(0, hit_tps)
        be == IF auto_be(tp1_now_hit, tp1_was_hit, sl)
              THEN be_price(side, entries, trade.entry) ELSE None
        marked == [trade EXCEPT !.hit_entries = hit_entries, !.hit_tps = hit_tps]
        mutated == IF be # None THEN break_even(marked, be) ELSE marked
        \* the closure check reads the local sl, bound before the break-even
        verdict == closure(side, sl, tps, price)
    IN  [ trade |-> mutated, should_close |-> verdict[1], reason |-> verdict[2],
          be_applied |-> be # None ]

\* ------------------------------------------------------------- manual edit
\* re.match(r"tp(\d+)", field): <<N>> for the field tpN, <<>> when no match
tp_match(field) ==
    CASE field = "tp0" -> <<0>>
      [] field = "tp1" -> <<1>>
      [] field = "tp2" -> <<2>>
      [] field = "tp3" -> <<3>>
      [] OTHER -> <<>>

\* for i in range(len(trades) - 1, -1, -1): the last trade whose pair
\* contains the symbol (1-based), None when there is none
target_index_default_last(trades, symbol) ==
    LET hits == {k \in 1..Len(trades) : Contains(upper(trades[k].pair), symbol)}
    IN  IF hits = {} THEN Len(trades) ELSE CHOOSE k \in hits : \A j \in hits : j <= k

target_index_first(trades, symbol) ==
    LET hits == {k \in 1..Len(trades) : Contains(upper(trades[k].pair), symbol)}
    IN  IF hits = {} THEN None ELSE CHOOSE k \in hits : \A j \in hits : j >= k

target_index(trades, symbol) ==
    LET hits == {k \in 1..Len(trades) : Contains(upper(trades[k].pair), symbol)}
    IN  IF hits = {} THEN None ELSE CHOOSE k \in hits : \A j \in hits : j <= k

\* tps after `/edit .. tpN value`, tp_index = N - 1 >= 0
edit_tps_append_once(tps, tp_index, new_value) ==
    IF tp_index < Len(tps)
    THEN [tps EXCEPT ![tp_index + 1] = new_value]
    ELSE Append(tps, new_value)

edit_tps(tps, tp_index, new_value) ==
    IF tp_index < Len(tps)
    THEN [tps EXCEPT ![tp_index + 1] = new_value]
    ELSE tps \o [k \in 1..(tp_index + 1 - Len(tps)) |-> new_value]

\* target["hit_tps"] = [] after a take-profit edit
reset_hit_tps_kept(hit_tps) == hit_tps

reset_hit_tps(hit_tps) == <<>>

\* target["sl"] = new_value; target["sl_note"] = ""
edit_sl_note_kept(trade, new_value) == [trade EXCEPT !.sl = new_value]

edit_sl(trade, new_value) == [trade EXCEPT !.sl = new_value, !.sl_note = ""]

\* cmd_edit from `args = context.args` on: the trades saved (or the store
\* as it was when nothing is saved), the index edited, and the reply
cmd_edit_body(trades, args) ==
    LET unchanged(reply) == [trades |-> trades, target |-> None, reply |-> reply]
    IN  IF Len(args) < 3 THEN unchanged("usage")
        ELSE
          LET symbol == upper(args[1])
              field == lower(args[2])
              new_value == float(args[3])
              target == target_index(trades, symbol)
          IN  IF new_value = None THEN unchanged("invalid value")
              ELSE IF target = None THEN unchanged("no trade")
              ELSE IF field = "sl"
                   THEN [ trades |-> [trades EXCEPT ![target] = edit_sl(trades[target], new_value)],
                          target |-> target, reply |-> "sl updated" ]
              ELSE IF startswith(field, {"tp"})
                   THEN IF tp_match(field) = <<>> THEN unchanged("unsupported field")
                        ELSE IF tp_match(field)[1] - 1 < 0 THEN unchanged("invalid index")
                        ELSE [ trades |-> [trades EXCEPT
                                  ![target].tps = edit_tps(trades[target].tps,
                                                           tp_match(field)[1] - 1, new_value),
                                  ![target].hit_tps = reset_hit_tps(trades[target].hit_tps)],
                               target |-> target, reply |-> "tp updated" ]
              ELSE unchanged("unsupported field")

EditArgs ==
    { <<sym, field, value>> : sym \in {"btc", "XRP", "sol"},
                              field \in {"sl", "TP1", "tp3", "tp0", "tpx", "foo"},
                              value \in {"2,0", "x"} }
    \cup { <<"btc", "sl">> }

\* ------------------------------------------------------------------- clear
\* clear_trades_by_symbol: the trades kept
RECURSIVE clear_trades_by_symbol(_, _)
clear_trades_by_symbol(trades, symbol) ==
    IF trades = <<>> THEN <<>>
    ELSE IF Contains(upper(Head(trades).pair), upper(symbol))
         THEN clear_trades_by_symbol(Tail(trades), symbol)
         ELSE <<Head(trades)>> \o clear_trades_by_symbol(Tail(trades), symbol)

\* cmd_clear from `args = context.args` on: the trades saved
cmd_clear_body(trades, args) ==
    IF args = <<>> THEN <<>> ELSE clear_trades_by_symbol(trades, args[1])

ClearArgs == { <<>>, <<"sol">>, <<"xrp">>, <<"usdt">> }

\* ------------------------------------------------------------ polling cycle
Pairs == {"BTC/USDT", "XRP"}

Quotes == Prices \cup {None}

\* price_cache = {}: no pair quoted yet
EmptyCache == [p \in Pairs |-> None]

\* `pair not in price_cache`: the loop calls get_price_for_pair for the pair
needs_fetch(cache, pair) == cache[pair] = None

\* price_cache after a call for the pair returned the quote
cache_after(cache, pair, quote) ==
    IF quote = None THEN cache ELSE [cache EXCEPT ![pair] = quote]

\* kept after the evaluator's verdict on trade t
kept_after_always(kept, t, should_close) == Append(kept, t)

kept_after(kept, t, should_close) == IF should_close THEN kept ELSE Append(kept, t)

\* kept after a trade whose price is unavailable (kept.append(t); continue)
carried_over_dropped(kept, t) == kept

carried_over(kept, t) == Append(kept, t)

\* One iteration of `for t in trades`: quote is what get_price_for_pair
\* returns if the iteration calls it
poll_trade(t, cache, kept, quote) ==
    LET pair == t.pair
        carried(fetched) ==
            [ pair |-> pair, fetched |-> fetched, quote |-> None, evaluated |-> FALSE,
              price |-> None, pre |-> t, post |-> t, should_close |-> FALSE,
              reason |-> "", be_applied |-> FALSE, cache |-> cache,
              kept |-> carried_over(kept, t) ]
    IN  IF pair = "" THEN carried(FALSE)
        ELSE IF needs_fetch(cache, pair) /\ quote = None THEN carried(TRUE)
        ELSE
          LET fetched == needs_fetch(cache, pair)
              price == IF fetched THEN quote ELSE cache[pair]
              r == update_trade_with_price(t, price)
          IN  [ pair |-> pair, fetched |-> fetched,
                quote |-> IF fetched THEN quote ELSE None,
                evaluated |-> TRUE, price |-> price, pre |-> t, post |-> r.trade,
                should_close |-> r.should_close, reason |-> r.reason,
                be_applied |-> r.be_applied,
                cache |-> IF fetched THEN cache_after(cache, pair, quote) ELSE cache,
                kept |-> kept_after(kept, r.trade, r.should_close) ]

\* ---------------------------------------------------------------- the state
VARIABLES
    store,       \* trades.json: the ordered list of open trades
    nextId,      \* message_id of the next channel message
    job,         \* job_check_prices: its position and locals
    edit,        \* cmd_edit: its position when suspended at an await
    clear,       \* cmd_clear: its position when suspended at an await
    running,     \* the coroutine holding the event loop, "none" when it is free
    closed,      \* origin ids of the trades the evaluator has closed
    beDone,      \* origin ids of the open trades the evaluator has moved to break-even
    beFresh,     \* origin ids with break-even applied and no manual edit since
    lostUpdate,  \* a save was computed from a snapshot older than the store
    last         \* the update or command handled last: what it was given

vars == <<store, nextId, job, edit, clear, running, closed, beDone, beFresh, lostUpdate, last>>

\* No update handled since the last polling step
NoOp ==
    [ op |-> "none", kind |-> "", ok |-> FALSE, sym |-> "", n |-> 0, value |-> None,
      arg |-> <<>>, out |-> <<>> ]

\* The first line of a text gives a side and a pair: after a leading glyph
\* token is dropped, two tokens or more, one of the first two a side keyword
HasSideAndPair(first) ==
    LET tokens == IF first # <<>> /\ ~any_isalnum(first[1]) /\ Len(first) > 1
                  THEN Tail(first) ELSE first
    IN  Len(tokens) >= 2 /\ (upper(tokens[1]) \in sides \/ upper(tokens[2]) \in sides)

\* A body line with one of the labels and at least one number
HasNumberLine(lines, labels) ==
    \E k \in 1..Len(lines) :
        /\ startswith(lower(lines[k].label), labels)
        /\ \E j \in 1..Len(lines[k].payload) : float(lines[k].payload[j]) # None

\* What a channel text lacks to be a call, "" when it lacks nothing
Lacks(text) ==
    IF ~HasSideAndPair(text.first) THEN "side or pair"
    ELSE IF ~HasNumberLine(text.lines, {"entry", "entrée", "entree", "pe"}) THEN "entry"
    ELSE IF ~HasNumberLine(text.lines, {"sl"}) THEN "sl"
    ELSE ""

\* handle_announce was given the text; brain: the text contains the glyph of
\* lines 473-476
AnnounceOp(text, brain) ==
    [NoOp EXCEPT !.op = "announce", !.kind = Lacks(text), !.ok = ~brain]

\* The field names `/edit` accepts besides sl: tp and a positive index
TpFields == {"tp1", "tp2", "tp3"}

\* The N of the field tpN
TpNumber(field) == CASE field = "tp1" -> 1 [] field = "tp2" -> 2 [] field = "tp3" -> 3

\* cmd_edit was given the arguments by an admin or not, with the trades
\* stored: the kind of request, and for a valid one its symbol, index, value
EditOp(trades, args, is_admin) ==
    LET edits(kind, n) ==
            [NoOp EXCEPT !.op = "edit", !.kind = kind, !.ok = TRUE,
                         !.sym = upper(args[1]), !.n = n, !.value = float(args[3])]
        refused(kind) == [NoOp EXCEPT !.op = "edit", !.kind = kind]
    IN  IF ~is_admin THEN refused("not admin")
        ELSE IF Len(args) < 3 THEN refused("too few arguments")
        ELSE IF float(args[3]) = None THEN refused("value not a number")
        ELSE IF lower(args[2]) \notin TpFields \cup {"sl"} THEN refused("field")
        ELSE IF \A k \in 1..Len(trades) : ~Contains(upper(trades[k].pair), upper(args[1]))
             THEN refused("no trade")
        ELSE IF lower(args[2]) = "sl" THEN edits("sl", 0)
        ELSE edits("tp", TpNumber(lower(args[2])))

\* The program points that are await expressions: the coroutine reaching one
\* gives the event loop back
AwaitPointsAsyncFetch ==
    {"edit_admin", "edit_reply", "clear_admin", "clear_reply", "job_fetch"}

AwaitPoints == {"edit_admin", "edit_reply", "clear_admin", "clear_reply"}

\* Who holds the event loop after coroutine h has run up to the point
Release(h, point) == IF point \in AwaitPoints THEN "none" ELSE h

MayRun(h) == running \in {"none", h}

JobIdle ==
    [ pc |-> "idle", trades |-> <<>>, i |-> 1, kept |-> <<>>, price_cache |-> EmptyCache,
      log |-> <<>>, stale |-> FALSE ]

Ids(trades) == {trades[k].origin_message_id : k \in 1..Len(trades)}

\* A save by a command while the job holds a snapshot makes the snapshot stale
JobAfterSaveByOther == IF job.pc = "loop" THEN [job EXCEPT !.stale = TRUE] ELSE job

Init ==
    /\ store = <<>>
    /\ nextId = 1
    /\ job = JobIdle
    /\ edit = "idle"
    /\ clear = "idle"
    /\ running = "none"
    /\ closed = {}
    /\ beDone = {}
    /\ beFresh = {}
    /\ lostUpdate = FALSE
    /\ last = NoOp

\* handle_announce: no await; parse, and add_trade when the text is a call.
\* Message ids are given to the calls in their order of arrival.
AnnounceFrom(firsts, bodies) ==
    /\ MayRun("announce")
    /\ nextId <= MaxMsgs
    /\ \E first \in firsts, body \in bodies, brain \in BOOLEAN :
         LET text == [first |-> first, lines |-> body]
             trade == IF brain THEN <<>> ELSE parse_trade_message(text, nextId, nextId)
         IN  /\ store' = store \o trade
             /\ nextId' = nextId + Len(trade)
             /\ job' = IF trade # <<>> THEN JobAfterSaveByOther ELSE job
             /\ last' = AnnounceOp(text, brain)
    /\ running' = "none"
    /\ UNCHANGED <<edit, clear, closed, beDone, beFresh, lostUpdate>>

Announce == AnnounceFrom(FirstLines, Bodies)

\* job_check_prices, line 278: load; an empty store ends the cycle
JobLoad ==
    /\ MayRun("job")
    /\ job.pc = "idle"
    /\ IF store = <<>>
       THEN UNCHANGED <<job, running>>
       ELSE /\ job' = [JobIdle EXCEPT !.pc = "loop", !.trades = store]
            /\ running' = Release("job", "job_load")
    /\ last' = NoOp
    /\ UNCHANGED <<store, nextId, edit, clear, closed, beDone, beFresh, lostUpdate>>

\* job_check_prices, lines 287-320: one trade of the loop
JobTrade ==
    /\ MayRun("job")
    /\ job.pc = "loop"
    /\ job.i <= Len(job.trades)
    /\ \E quote \in Quotes :
         LET t == job.trades[job.i]
             r == poll_trade(t, job.price_cache, job.kept, quote)
             id == t.origin_message_id
             entry == [ pair |-> r.pair, fetched |-> r.fetched, quote |-> r.quote,
                        evaluated |-> r.evaluated, price |-> r.price, pre |-> r.pre,
                        post |-> r.post, should_close |-> r.should_close,
                        reason |-> r.reason, be_applied |-> r.be_applied,
                        be_before |-> id \in beFresh,
                        be_done_before |-> id \in beDone ]
         IN  /\ job' = [job EXCEPT !.i = job.i + 1, !.kept = r.kept,
                                   !.price_cache = r.cache, !.log = Append(job.log, entry)]
             /\ closed' = IF r.should_close THEN closed \cup {id} ELSE closed
             /\ beDone' = IF r.should_close THEN beDone \ {id}
                          ELSE IF r.be_applied THEN beDone \cup {id}
                          ELSE beDone
             /\ beFresh' = IF r.should_close THEN beFresh \ {id}
                           ELSE IF r.be_applied THEN beFresh \cup {id}
                           ELSE beFresh
             /\ running' = IF r.fetched THEN Release("job", "job_fetch") ELSE "job"
    /\ last' = NoOp
    /\ UNCHANGED <<store, nextId, edit, clear, lostUpdate>>

\* job_check_prices, line 322: save_trades(kept)
JobSave ==
    /\ MayRun("job")
    /\ job.pc = "loop"
    /\ job.i > Len(job.trades)
    /\ store' = job.kept
    /\ lostUpdate' = (lostUpdate \/ job.stale)
    /\ job' = JobIdle
    /\ running' = "none"
    /\ last' = NoOp
    /\ UNCHANGED <<nextId, edit, clear, closed, beDone, beFresh>>

\* cmd_edit between its two awaits: the admin answer, then lines 637-716
EditEffect(argset) ==
    \E is_admin \in BOOLEAN, args \in argset :
        LET r == cmd_edit_body(store, args)
            saved == is_admin /\ r.target # None
        IN  /\ store' = IF saved THEN r.trades ELSE store
            /\ job' = IF saved THEN JobAfterSaveByOther ELSE job
            /\ beFresh' = IF saved
                          THEN beFresh \ {store[r.target].origin_message_id}
                          ELSE beFresh
            /\ last' = EditOp(store, args, is_admin)

\* cmd_clear between its two awaits: the admin answer, then lines 604-611
ClearEffect ==
    \E is_admin \in BOOLEAN, args \in ClearArgs :
        /\ store' = IF is_admin THEN cmd_clear_body(store, args) ELSE store
        /\ job' = IF is_admin THEN JobAfterSaveByOther ELSE job
        /\ beFresh' = IF is_admin THEN beFresh \cap Ids(cmd_clear_body(store, args))
                      ELSE beFresh
        /\ beDone' = IF is_admin THEN beDone \cap Ids(cmd_clear_body(store, args))
                     ELSE beDone
        /\ last' = NoOp

\* cmd_edit, the whole handler
Edit ==
    /\ MayRun("edit")
    /\ edit = "idle"
    /\ EditEffect(EditArgs)
    /\ running' = "none"
    /\ UNCHANGED <<nextId, edit, clear, closed, beDone, lostUpdate>>

\* cmd_clear, the whole handler
Clear ==
    /\ MayRun("clear")
    /\ clear = "idle"
    /\ ClearEffect
    /\ running' = "none"
    /\ UNCHANGED <<nextId, edit, clear, closed, lostUpdate>>

Next ==
    \/ Announce
    \/ JobLoad
    \/ JobTrade
    \/ JobSave
    \/ Edit
    \/ Clear

Spec == Init /\ [][Next]_vars

\* ------------------------------------------------- handlers split at awaits
\* The same handlers, each command a coroutine that gives the event loop
\* back at its awaits (user_is_admin, reply_text), on fewer inputs.
AsyncFirstLines == { <<"##", "LONG", "BTC/USDT">>, <<"Buy", "BTC/USDT">>, <<"xrp", "short">> }

AsyncBodies ==
    { << [label |-> "Entry", payload |-> <<"3">>], [label |-> "SL", payload |-> <<"1">>],
         [label |-> "TP1", payload |-> <<"2">>], [label |-> "TP2", payload |-> <<"4">>] >> }

AsyncEditArgs == { <<"btc", "sl", "2,0">>, <<"XRP", "TP1", "2,0">>, <<"sol", "sl", "x">> }

AnnounceAsync == AnnounceFrom(AsyncFirstLines, AsyncBodies)

\* cmd_edit up to `await user_is_admin`
EditStart ==
    /\ MayRun("edit")
    /\ edit = "idle"
    /\ edit' = "admin"
    /\ running' = Release("edit", "edit_admin")
    /\ last' = NoOp
    /\ UNCHANGED <<store, nextId, job, clear, closed, beDone, beFresh, lostUpdate>>

\* cmd_edit from the admin answer to its `await reply_text`
EditResume ==
    /\ MayRun("edit")
    /\ edit = "admin"
    /\ EditEffect(AsyncEditArgs)
    /\ edit' = "reply"
    /\ running' = Release("edit", "edit_reply")
    /\ UNCHANGED <<nextId, clear, closed, beDone, lostUpdate>>

\* cmd_edit: the reply is sent, the handler returns
EditReturn ==
    /\ MayRun("edit")
    /\ edit = "reply"
    /\ edit' = "idle"
    /\ running' = "none"
    /\ last' = NoOp
    /\ UNCHANGED <<store, nextId, job, clear, closed, beDone, beFresh, lostUpdate>>

\* cmd_clear up to `await user_is_admin`
ClearStart ==
    /\ MayRun("clear")
    /\ clear = "idle"
    /\ clear' = "admin"
    /\ running' = Release("clear", "clear_admin")
    /\ last' = NoOp
    /\ UNCHANGED <<store, nextId, job, edit, closed, beDone, beFresh, lostUpdate>>

\* cmd_clear from the admin answer to its `await reply_text`
ClearResume ==
    /\ MayRun("clear")
    /\ clear = "admin"
    /\ ClearEffect
    /\ clear' = "reply"
    /\ running' = Release("clear", "clear_reply")
    /\ UNCHANGED <<nextId, edit, closed, lostUpdate>>

\* cmd_clear: the reply is sent, the handler returns
ClearReturn ==
    /\ MayRun("clear")
    /\ clear = "reply"
    /\ clear' = "idle"
    /\ running' = "none"
    /\ last' = NoOp
    /\ UNCHANGED <<store, nextId, job, edit, closed, beDone, beFresh, lostUpdate>>

NextAsync ==
    \/ AnnounceAsync
    \/ JobLoad
    \/ JobTrade
    \/ JobSave
    \/ EditStart
    \/ EditResume
    \/ EditReturn
    \/ ClearStart
    \/ ClearResume
    \/ ClearReturn

SpecAsync == Init /\ [][NextAsync]_vars

\* ----------------------------------------------- the extractor, on characters
\* extract_floats on a line as a sequence of characters. A float is held as
\* the integer number of its thousandths (2.451 is 2451, 95.0 is 95000).
Digits == {"0", "1", "2", "3", "4", "5", "6", "7", "8", "9"}

DigitValue(c) ==
    CASE c = "0" -> 0 [] c = "1" -> 1 [] c = "2" -> 2 [] c = "3" -> 3 [] c = "4" -> 4
      [] c = "5" -> 5 [] c = "6" -> 6 [] c = "7" -> 7 [] c = "8" -> 8 [] c = "9" -> 9

\* line.replace(",", ".")
comma_removed(line) == SelectSeq(line, LAMBDA c : c # ",")

comma_to_dot(line) == [i \in 1..Len(line) |-> IF line[i] = "," THEN "." ELSE line[i]]

\* \d* from position j: the position after the run of digits
RECURSIVE DigitsEnd(_, _)
DigitsEnd(txt, j) ==
    IF j <= Len(txt) /\ txt[j] \in Digits THEN DigitsEnd(txt, j + 1) ELSE j

\* The match of [-+]?\d*\.?\d+ that starts at position i: the position after
\* it, i itself when there is no match there
MatchEnd(txt, i) ==
    LET j == IF txt[i] \in {"-", "+"} THEN i + 1 ELSE i
        d == DigitsEnd(txt, j)
        f == IF d <= Len(txt) /\ txt[d] = "." THEN DigitsEnd(txt, d + 1) ELSE d
    IN  IF f > d + 1 THEN f          \* digits, a dot, digits (the first run may be empty)
        ELSE IF d > j THEN d          \* digits alone
        ELSE i

\* re.findall: the matches left to right, the scan resuming after each match
RECURSIVE findall(_, _)
findall(txt, i) ==
    IF i > Len(txt) THEN <<>>
    ELSE IF MatchEnd(txt, i) = i THEN findall(txt, i + 1)
    ELSE <<SubSeq(txt, i, MatchEnd(txt, i) - 1)>> \o findall(txt, MatchEnd(txt, i))

\* int of a run of digits
RECURSIVE IntOf(_)
IntOf(digits) ==
    IF digits = <<>> THEN 0
    ELSE 10 * IntOf(SubSeq(digits, 1, Len(digits) - 1)) + DigitValue(digits[Len(digits)])

\* float(m) of a match, in thousandths (at most three decimals are kept)
float_of_match(m) ==
    LET negative == m[1] = "-"
        body == IF m[1] \in {"-", "+"} THEN Tail(m) ELSE m
        d == DigitsEnd(body, 1)
        whole == IntOf(SubSeq(body, 1, d - 1))
        decimals == SubSeq(body, d + 1, Len(body))
        three == [k \in 1..3 |-> IF k <= Len(decimals) THEN decimals[k] ELSE "0"]
        thousandths == 1000 * whole + IntOf(three)
    IN  IF negative THEN 0 - thousandths ELSE thousandths

\* extract_floats(line)
extract_floats_chars(line) ==
    LET matches == findall(comma_to_dot(line), 1)
    IN  [k \in 1..Len(matches) |-> float_of_match(matches[k])]

\* The lines given to the extractor: three lines of calls, and every line of
\* up to MaxLineLen characters over a few characters
EntryLine == <<"E", "n", "t", "r", "y", ":", " ", "9", "5", ",", "0", "0", "0">>

PeLine == <<"P", "E", ":", " ", "2", ".", "4", "5", "1", " ", "3", ".", "1", "2", "5">>

DashLine == <<"-", "-", "-">>

Alphabet == {"1", "5", ",", ".", "-"}

RECURSIVE LinesOfLen(_)
LinesOfLen(n) ==
    IF n = 0 THEN {<<>>}
    ELSE {Append(l, c) : l \in LinesOfLen(n - 1), c \in Alphabet}

Lines == {EntryLine, PeLine, DashLine} \cup UNION {LinesOfLen(n) : n \in 0..MaxLineLen}

\* A line is given to the extractor
InitExtract ==
    /\ store = <<>>
    /\ nextId = 1
    /\ job = JobIdle
    /\ edit = "idle"
    /\ clear = "idle"
    /\ running = "none"
    /\ closed = {}
    /\ beDone = {}
    /\ beFresh = {}
    /\ lostUpdate = FALSE
    /\ last \in {[NoOp EXCEPT !.op = "line", !.arg = line] : line \in Lines}

\* extract_floats returns
Extract ==
    /\ last.op = "line"
    /\ last' = [last EXCEPT !.op = "floats", !.out = extract_floats_chars(last.arg)]
    /\ UNCHANGED <<store, nextId, job, edit, clear, running, closed, beDone, beFresh, lostUpdate>>

SpecExtract == InitExtract /\ [][Extract]_vars

\* ------------------------------------------------------------- the listing
\* cmd_trades asks for get_open_trades(limit=20)
ListLimit == 20

\* get_open_trades: trades[-limit:]
get_open_trades_head(trades, limit) ==
    SubSeq(trades, 1, IF Len(trades) < limit THEN Len(trades) ELSE limit)

get_open_trades(trades, limit) ==
    SubSeq(trades, IF Len(trades) > limit THEN Len(trades) - limit + 1 ELSE 1, Len(trades))

\* The levels of a rendered line, each with its check mark
Marked(levels, hits) ==
    [i \in 1..Len(levels) |-> [value |-> levels[i], mark |-> InSeq(i - 1, hits)]]

\* The block cmd_trades renders for the trade at position idx of its list
Block(t, idx) ==
    [ idx |-> idx, pair |-> t.pair, side |-> t.side,
      entries |-> Marked(IF t.entries # <<>> THEN t.entries ELSE <<t.entry>>, t.hit_entries),
      sl |-> t.sl, sl_note |-> t.sl_note,
      tps |-> Marked(t.tps, t.hit_tps),
      created |-> t.created_at ]

\* cmd_trades in the discussion chat: the blocks of the reply (none when the
\* reply is the no-trade text)
cmd_trades(stored) ==
    LET trades == get_open_trades(stored, ListLimit)
    IN  [idx \in 1..Len(trades) |-> Block(trades[idx], idx)]

\* cmd_trades, the whole handler: it answers in the discussion chat only
ListTrades ==
    /\ MayRun("trades")
    /\ \E in_chat \in BOOLEAN :
         last' = IF in_chat
                 THEN [NoOp EXCEPT !.op = "trades", !.ok = TRUE, !.out = cmd_trades(store)]
                 ELSE [NoOp EXCEPT !.op = "trades"]
    /\ running' = "none"
    /\ UNCHANGED <<store, nextId, job, edit, clear, closed, beDone, beFresh, lostUpdate>>

\* n calls stored in their order of arrival, long BTC and short XRP in turn
StoredCalls(n) ==
    [ k \in 1..n |->
        parse_trade_message(
            [ first |-> IF k % 2 = 1 THEN <<"##", "LONG", "BTC/USDT">> ELSE <<"xrp", "short">>,
              lines |-> CHOOSE body \in AsyncBodies : TRUE ], k, k)[1] ]

\* The listing is asked for with up to MaxStored trades stored, between
\* manual edits and clears
InitListing ==
    /\ store \in {StoredCalls(n) : n \in 0..MaxStored}
    /\ nextId = Len(store) + 1
    /\ job = JobIdle
    /\ edit = "idle"
    /\ clear = "idle"
    /\ running = "none"
    /\ closed = {}
    /\ beDone = {}
    /\ beFresh = {}
    /\ lostUpdate = FALSE
    /\ last = NoOp

NextListing ==
    \/ ListTrades
    \/ Edit
    \/ Clear

SpecListing == InitListing /\ [][NextListing]_vars

\* ------------------------------------------- polling with no manual command
\* The announcements and the polling job alone. run_repeating(interval=60)
\* starts a cycle again and again, and a cycle has no await: each step of the
\* job that can be taken is taken.
NextPolling ==
    \/ AnnounceAsync
    \/ JobLoad
    \/ JobTrade
    \/ JobSave

SpecPolling ==
    /\ Init
    /\ [][NextPolling]_vars
    /\ WF_vars(JobLoad)
    /\ WF_vars(JobTrade)
    /\ WF_vars(JobSave)

\* ------------------------------------------------------------------ claims
\* The evaluator calls of the polling cycle in progress
Evaluated == {k \in 1..Len(job.log) : job.log[k].evaluated}

\* The trades of the store, of the cycle's kept list and of its evaluations
TradesInPlay ==
    {store[k] : k \in 1..Len(store)} \cup {job.kept[k] : k \in 1..Len(job.kept)}
    \cup {job.log[k].post : k \in 1..Len(job.log)}

\* C1: in an evaluator call that applies the auto break-even, should_close is
\* the closure decision computed from the trade's sl as it stands after the
\* break-even assignment.
C1_CloseUsesUpdatedSL ==
    \A k \in Evaluated :
        LET e == job.log[k]
        IN  e.be_applied =>
              e.should_close = closure(upper(e.post.side), e.post.sl, e.post.tps, e.price)[1]

\* C2: every stored trade has side LONG or SHORT.
C2_SideIsLongOrShort ==
    \A k \in 1..Len(store) : store[k].side \in {"LONG", "SHORT"}

\* C3: within one polling cycle get_price_for_pair is called at most once
\* for each pair, whatever the calls return.
C3_OneFetchPerPair ==
    \A p \in Pairs :
        Cardinality({k \in 1..Len(job.log) : job.log[k].fetched /\ job.log[k].pair = p}) <= 1

\* C4: with the handlers suspended only at their awaits, the polling cycle
\* holds the event loop from its load to its save, its snapshot is the store
\* all along, and no save is computed from a snapshot older than the store.
C4_NoLostUpdate ==
    /\ ~lostUpdate
    /\ job.pc = "loop" => running = "job" /\ ~job.stale /\ job.trades = store

C4_Witness ==
    /\ job.pc = "loop"
    /\ Len(job.log) >= 1
    /\ edit = "admin"
    /\ clear = "reply"

\* C5: a trade the evaluator closed is in the store only until the cycle that
\* closed it saves; no later cycle, edit or clear puts it back.
C5_ClosedStaysOut ==
    \A k \in 1..Len(store) :
        store[k].origin_message_id \in closed =>
            /\ job.pc = "loop"
            /\ \E j \in 1..Len(job.log) :
                 /\ job.log[j].should_close
                 /\ job.log[j].pre.origin_message_id = store[k].origin_message_id

C5_Witness ==
    /\ closed # {}
    /\ job.pc = "loop"
    /\ Len(job.log) >= 1
    /\ \A j \in 1..Len(job.log) : job.log[j].evaluated /\ ~job.log[j].should_close

\* C6: a trade whose price fetch returns unavailable is carried over with
\* every field as loaded, and every trade of the cycle whose price is
\* available is evaluated; no trade of the snapshot is skipped.
C6_FailedFetchIsolated ==
    /\ job.pc = "loop" => Len(job.log) = job.i - 1
    /\ \A k \in 1..Len(job.log) :
         LET e == job.log[k]
             unavailable == e.fetched /\ e.quote = None
         IN  /\ e.pre = job.trades[k]
             /\ unavailable => ~e.evaluated /\ e.post = e.pre /\ InSeq(e.pre, job.kept)
             /\ ~unavailable => e.evaluated

C6_Witness ==
    \E k, j \in 1..Len(job.log) :
        /\ k < j
        /\ job.log[k].fetched /\ job.log[k].quote = None
        /\ job.log[j].evaluated
        /\ job.log[j].post # job.log[j].pre

\* C7: every index of hit_entries is an index of entries and every index of
\* hit_tps is an index of tps.
C7_HitIndicesValid ==
    \A t \in TradesInPlay :
        /\ \A k \in 1..Len(t.hit_entries) : t.hit_entries[k] \in 0..(Len(t.entries) - 1)
        /\ \A k \in 1..Len(t.hit_tps) : t.hit_tps[k] \in 0..(Len(t.tps) - 1)

C7_Witness ==
    \E k \in 1..Len(store) :
        /\ Len(store[k].tps) = 3
        /\ Len(store[k].hit_tps) >= 2
        /\ store[k].hit_entries # <<>>

\* C8: no index occurs twice in hit_entries or in hit_tps.
C8_HitsAreSets ==
    \A t \in TradesInPlay :
        /\ \A k \in 1..Len(t.hit_entries) : Occurrences(t.hit_entries[k], t.hit_entries) = 1
        /\ \A k \in 1..Len(t.hit_tps) : Occurrences(t.hit_tps[k], t.hit_tps) = 1

\* An evaluator call at a price that reaches an entry and a take-profit
\* already marked
C8_Witness ==
    \E k \in Evaluated :
        LET e == job.log[k]
        IN  /\ IsLong(e.pre.side)
            /\ \E i \in 1..Len(e.pre.entries) :
                 InSeq(i - 1, e.pre.hit_entries) /\ e.price <= e.pre.entries[i]
            /\ \E i \in 1..Len(e.pre.tps) :
                 InSeq(i - 1, e.pre.hit_tps) /\ e.price >= e.pre.tps[i]

\* C9: an evaluator call in which TP index 0 becomes hit and sl is set puts sl
\* at max(entries) for a long, min(entries) for a short, and sl_note at "BE";
\* any other call leaves sl and sl_note as they were.
C9_BreakEven ==
    \A k \in Evaluated :
        LET e == job.log[k]
            newly == ~InSeq(0, e.pre.hit_tps) /\ InSeq(0, e.post.hit_tps)
        IN  IF newly /\ e.pre.sl # None
            THEN /\ IsLong(e.pre.side) => e.post.sl = max(e.pre.entries)
                 /\ IsShort(e.pre.side) => e.post.sl = min(e.pre.entries)
                 /\ e.post.sl_note = "BE"
            ELSE e.post.sl = e.pre.sl /\ e.post.sl_note = e.pre.sl_note

C9_Witness ==
    \E k \in Evaluated :
        LET e == job.log[k]
        IN  /\ e.be_applied
            /\ Len(e.pre.entries) = 2
            /\ e.post.sl # e.pre.sl
            /\ e.post.sl # e.pre.entries[1]

\* C10: once a call has applied the break-even, the later calls on the trade,
\* with no manual edit in between, make no break-even assignment and leave sl
\* and sl_note as they were.
C10_BreakEvenOnce ==
    \A k \in Evaluated :
        LET e == job.log[k]
        IN  e.be_before =>
              ~e.be_applied /\ e.post.sl = e.pre.sl /\ e.post.sl_note = e.pre.sl_note

\* A later call at a price that reaches TP1 again
C10_Witness ==
    \E k \in Evaluated :
        LET e == job.log[k]
        IN  /\ e.be_before
            /\ e.pre.sl_note = "BE"
            /\ IF IsLong(e.pre.side) THEN e.price >= e.pre.tps[1] ELSE e.price <= e.pre.tps[1]

\* The stored trades whose pair contains the symbol, and the most recently
\* announced of them
Matching(sym) == {k \in 1..Len(store) : Contains(upper(store[k].pair), sym)}

MostRecent(sym) ==
    CHOOSE k \in Matching(sym) : \A j \in Matching(sym) : store[j].created_at <= store[k].created_at

\* The step is a manual edit of a take-profit / of the stop that passed validation
TpEditStep == last'.op = "edit" /\ last'.kind = "tp"

SlEditStep == last'.op = "edit" /\ last'.kind = "sl"

\* The step is the save of a polling cycle
SaveStep == job.pc = "loop" /\ job'.pc = "idle"

\* The take-profit indices the price reaches, for the side of the trade
Reached(t, price) ==
    {i \in 0..(Len(t.tps) - 1) :
        IF IsLong(upper(t.side)) THEN price >= t.tps[i + 1] ELSE price <= t.tps[i + 1]}

\* C11: a take-profit edit leaves the edited trade with hit_tps empty; the
\* evaluator call that finds hit_tps empty leaves in it exactly the indices
\* whose level the price reaches; and between the two nothing else writes
\* hit_tps (only a take-profit edit and the save of a cycle change it).
C11_TpEditResetsHits ==
    [][ /\ TpEditStep => store'[MostRecent(last'.sym)].hit_tps = <<>>
        /\ \A k \in 1..Len(job'.log) :
             LET e == job'.log[k]
             IN  e.evaluated /\ e.pre.hit_tps = <<>> =>
                   /\ {e.post.hit_tps[i] : i \in 1..Len(e.post.hit_tps)} = Reached(e.pre, e.price)
                   /\ Len(e.post.hit_tps) = Cardinality(Reached(e.pre, e.price))
        /\ ~TpEditStep /\ ~SaveStep =>
             \A k \in 1..Len(store), j \in 1..Len(store') :
                 store[k].origin_message_id = store'[j].origin_message_id =>
                     store'[j].hit_tps = store[k].hit_tps
      ]_vars

\* The call after a take-profit edit of a trade whose TP1 had been hit (its
\* stop is at break-even): the marks are those of this price alone
C11_Witness ==
    \E k \in Evaluated :
        LET e == job.log[k]
        IN  /\ e.pre.sl_note = "BE"
            /\ e.pre.hit_tps = <<>>
            /\ Len(e.pre.tps) = 3
            /\ e.post.hit_tps = <<0, 2>>

\* C12: an /edit whose value is not a number, whose field is neither sl nor
\* tp with a positive index, which has fewer than three arguments, or whose
\* symbol matches no stored pair (or which a non-admin sends) leaves the
\* store as it was.
C12_RefusedEditChangesNothing ==
    [][ last'.op = "edit" /\ ~last'.ok => store' = store ]_vars

\* A valid edit for a symbol no stored pair contains, with two trades stored
C12_Witness ==
    /\ last.op = "edit"
    /\ last.kind = "no trade"
    /\ Len(store) = 2

\* C13: a valid set-SL edit changes exactly one trade, the most recently
\* announced of those whose pair contains the symbol: its sl becomes the
\* value and its sl_note the empty string; nothing else changes.
C13_SlEditTargetsMostRecent ==
    [][ SlEditStep =>
          LET k == MostRecent(last'.sym)
          IN  /\ Matching(last'.sym) # {}
              /\ store' = [store EXCEPT ![k].sl = last'.value, ![k].sl_note = ""]
      ]_vars

\* Two stored trades match the symbol; the later one has the value as its
\* stop, the earlier one has not
C13_Witness ==
    /\ last.op = "edit"
    /\ last.kind = "sl"
    /\ Len(store) = 2
    /\ Matching(last.sym) = {1, 2}
    /\ store[2].sl = last.value
    /\ store[1].sl # last.value

\* C14: a valid set-TP-N edit on a trade with L take-profits: for N <= L only
\* tps[N-1] changes, to the value, and the length stays L; for N > L the
\* first L stay and the positions L .. N-1 all hold the value, length N.
C14_TpEditOverwritesOrPads ==
    [][ TpEditStep =>
          LET k == MostRecent(last'.sym)
              old == store[k].tps
              new == store'[k].tps
              L == Len(old)
              N == last'.n
          IN  IF N <= L
              THEN /\ Len(new) = L
                   /\ \A i \in 1..L : new[i] = IF i = N THEN last'.value ELSE old[i]
              ELSE /\ Len(new) = N
                   /\ \A i \in 1..L : new[i] = old[i]
                   /\ \A i \in (L + 1)..N : new[i] = last'.value
      ]_vars

\* tp3 on a trade that had one take-profit: two positions padded
C14_Witness ==
    /\ last.op = "edit"
    /\ last.kind = "tp"
    /\ last.n = 3
    /\ \E k \in Matching(last.sym) :
         /\ Len(store[k].tps) = 3
         /\ store[k].tps[1] # last.value
         /\ store[k].tps[2] = last.value
         /\ store[k].tps[3] = last.value

\* The step is the intake of a channel text
AnnounceStep == last'.op = "announce"

\* The step appends exactly one trade to the store
AppendsOne == Len(store') = Len(store) + 1 /\ SubSeq(store', 1, Len(store)) = store

\* The parser produces a trade exactly for the texts that lack nothing
ParserProducesIffComplete ==
    \A first \in FirstLines, body \in Bodies :
        LET text == [first |-> first, lines |-> body]
        IN  parse_trade_message(text, 1, 1) # <<>> <=> Lacks(text) = ""

\* C15 as stated: the parser produces a trade, and the intake appends exactly
\* one trade, if and only if the first line gives a side and a pair and the
\* body has an entry line and an SL line with a number; otherwise the store
\* is unchanged.
C15_IntakeAppendsIffComplete ==
    [][ /\ ParserProducesIffComplete
        /\ AnnounceStep =>
             IF last'.kind = "" THEN AppendsOne ELSE store' = store
      ]_vars

\* C15 amended: the same, for the texts that do not contain the glyph the
\* intake filters on; a text that contains it is ignored whatever it holds.
C15_IntakeAppendsIffCompleteAndNotFiltered ==
    [][ /\ ParserProducesIffComplete
        /\ AnnounceStep =>
             IF last'.kind = "" /\ last'.ok THEN AppendsOne ELSE store' = store
      ]_vars

\* A text with side, pair, entry and take-profit but no SL line arrived
\* after a call was stored: nothing was appended
C15_Witness ==
    /\ last.op = "announce"
    /\ last.kind = "sl"
    /\ last.ok
    /\ Len(store) = 1
    /\ nextId = 2

\* The stop condition and the final take-profit condition of a trade at a price
StopCondition(t, price) ==
    /\ t.sl # None
    /\ IF IsLong(upper(t.side)) THEN price <= t.sl ELSE price >= t.sl

FinalTpCondition(t, price) ==
    /\ t.tps # <<>>
    /\ IF IsLong(upper(t.side))
       THEN \A i \in 1..Len(t.tps) : price >= t.tps[i]
       ELSE \A i \in 1..Len(t.tps) : price <= t.tps[i]

\* C16: in an evaluator call that applies no break-even, should_close is true
\* exactly when the stop condition or the final take-profit condition holds;
\* the reason is the stop reason whenever the stop condition holds, so a
\* trade with no sl closes only with the take-profit reason.
C16_ClosureDecision ==
    \A k \in Evaluated :
        LET e == job.log[k]
        IN  ~e.be_applied =>
              /\ e.should_close <=> StopCondition(e.pre, e.price) \/ FinalTpCondition(e.pre, e.price)
              /\ e.should_close =>
                    e.reason = IF StopCondition(e.pre, e.price) THEN "SL" ELSE "TP"
              /\ e.pre.sl = None => e.reason # "SL"

\* A call without break-even at a price where the stop condition and the
\* final take-profit condition both hold: closed with the stop reason
C16_Witness ==
    \E k \in Evaluated :
        LET e == job.log[k]
        IN  /\ ~e.be_applied
            /\ StopCondition(e.pre, e.price)
            /\ FinalTpCondition(e.pre, e.price)
            /\ e.should_close
            /\ e.reason = "SL"

\* The entries of the cycle in progress for the trade with the origin id
EntriesOf(id) == {k \in 1..Len(job.log) : job.log[k].pre.origin_message_id = id}

\* The cycle in progress met the trade without a quote at a price that
\* satisfies its stop or final take-profit condition
NotAtClosingPrice(id) ==
    \E k \in EntriesOf(id) :
        LET e == job.log[k]
        IN  ~(e.evaluated /\ (StopCondition(e.pre, e.price) \/ FinalTpCondition(e.pre, e.price)))

\* A trade whose quote is unavailable is carried over as loaded, and every
\* trade a cycle meets has had the fetch for its pair attempted in that cycle
RetainedAndAttempted ==
    \A k \in 1..Len(job.log) :
        LET e == job.log[k]
        IN  /\ e.fetched /\ e.quote = None =>
                  ~e.evaluated /\ e.post = e.pre /\ InSeq(e.pre, job.kept)
            /\ \/ e.fetched
               \/ \E j \in 1..(k - 1) :
                     job.log[j].pair = e.pair /\ job.log[j].fetched /\ job.log[j].quote # None

\* C17: a trade whose quote is unavailable is neither removed nor modified by
\* the cycle, and every cycle attempts the fetch for its pair; a stored trade
\* is met by a cycle again and again; and a trade that stays stored for ever
\* meets, again and again, a cycle without a quote at a closing price (so a
\* trade quoted at a closing price from some cycle on is removed).
C17_RetriedUntilClosed ==
    /\ []RetainedAndAttempted
    /\ \A id \in 1..MaxMsgs :
         /\ (id \in Ids(store) /\ job.pc = "idle") ~> (EntriesOf(id) # {})
         /\ []<>(id \notin Ids(store) \/ NotAtClosingPrice(id))

\* A cycle in which the first trade of a pair got no quote and was carried
\* over, and the next trade of the pair was quoted at a closing price
C17_Witness ==
    /\ Len(job.log) = 2
    /\ job.log[1].fetched /\ job.log[1].quote = None
    /\ job.kept = <<job.log[1].pre>>
    /\ job.log[2].pair = job.log[1].pair
    /\ job.log[2].should_close
    /\ job.log[2].pre.origin_message_id \in closed

\* The identity of a trade: the fields no operation is to change
SameIdentity(a, b) ==
    /\ a.origin_message_id = b.origin_message_id
    /\ a.pair = b.pair
    /\ a.side = b.side
    /\ a.entries = b.entries
    /\ a.created_at = b.created_at

\* C18: no step of a polling cycle and no manual edit changes the origin id,
\* pair, side, entries or created_at of a trade, and entries is never empty:
\* each step of the loop leaves them as loaded, the save stores trades the
\* loop produced, an edit keeps them position by position.
C18_IdentityFieldsImmutable ==
    [][ /\ \A k \in 1..Len(job'.log) : SameIdentity(job'.log[k].pre, job'.log[k].post)
        /\ SaveStep =>
             \A j \in 1..Len(store') : \E k \in 1..Len(job.log) : store'[j] = job.log[k].post
        /\ last'.op = "edit" =>
             /\ Len(store') = Len(store)
             /\ \A k \in 1..Len(store) : SameIdentity(store[k], store'[k])
        /\ \A j \in 1..Len(store') : store'[j].entries # <<>>
      ]_vars

\* A stored trade of two entries that polling has marked (entries and
\* take-profits), whose take-profits and stop were edited
C18_Witness ==
    \E k \in 1..Len(store) :
        /\ Len(store[k].entries) = 2
        /\ store[k].hit_entries # <<>>
        /\ store[k].hit_tps # <<>>
        /\ Len(store[k].tps) = 3
        /\ store[k].sl = 2

\* The listing last handled was answered with the blocks of these trades,
\* one block each, in their order
RendersExactly(trades) ==
    /\ Len(last.out) = Len(trades)
    /\ \A i \in 1..Len(trades) :
         /\ last.out[i].idx = i
         /\ last.out[i].created = trades[i].created_at
         /\ last.out[i].pair = trades[i].pair
         /\ last.out[i].side = trades[i].side

\* The trades from position a on
From(trades, a) == [i \in 1..(Len(trades) - a + 1) |-> trades[a + i - 1]]

\* C19 as stated: the listing renders one block for every stored trade,
\* whatever their number.
C19_ListsEveryTrade ==
    last.op = "trades" /\ last.ok => RendersExactly(store)

\* C19 amended: the listing renders one block for each of the 20 most
\* recently stored trades, every trade when at most 20 are stored, and
\* leaves the store as it was.
C19_ListsLastTwenty ==
    [][ last'.op = "trades" =>
          /\ store' = store
          /\ last'.ok =>
                (IF Len(store) <= 20 THEN RendersExactly(store)
                 ELSE RendersExactly(From(store, Len(store) - 19)))'
      ]_vars

\* The listing of 21 stored trades: 20 blocks, the first for the second trade
C19_Witness ==
    /\ last.op = "trades"
    /\ last.ok
    /\ Len(store) = 21
    /\ Len(last.out) = 20
    /\ last.out[1].created = store[2].created_at

\* extract_floats returned for the line: the floats, in thousandths
Returned(line, floats) == last.op = "floats" /\ last.arg = line => last.out = floats

\* C20 as stated: 'Entry: 95,000' gives [95000.0], 'PE: 2.451 3.125' gives
\* [2.451, 3.125], '---' gives [].
C20_ExtractorExamples ==
    /\ Returned(EntryLine, <<95000000>>)
    /\ Returned(PeLine, <<2451, 3125>>)
    /\ Returned(DashLine, <<>>)

\* C20 amended: 'Entry: 95,000' gives [95.0] (the comma is read as the
\* decimal separator); 'PE: 2.451 3.125' gives [2.451, 3.125]; '---' gives [].
C20_ExtractorExamplesCommaDecimal ==
    /\ Returned(EntryLine, <<95000>>)
    /\ Returned(PeLine, <<2451, 3125>>)
    /\ Returned(DashLine, <<>>)

\* The extractor has returned one float for the line 'Entry: 95,000'
C20_Witness ==
    /\ last.op = "floats"
    /\ last.arg = EntryLine
    /\ Len(last.out) = 1

\* C21: the evaluator makes the break-even assignment at most once in the
\* life of a trade, whatever polls and manual edits come in between: no call
\* makes it on a trade that an earlier call has moved to break-even.
C21_BreakEvenOnceInLife ==
    \A k \in Evaluated :
        LET e == job.log[k]
        IN  e.be_done_before => ~e.be_applied

\* C22: sl_note of a trade is "" or "BE", and a trade annotated "BE" has its
\* sl at its break-even price: max(entries) for LONG / BUY, min(entries) for
\* SHORT / SELL.
C22_BeNoteMeansBeStop ==
    \A t \in TradesInPlay :
        /\ t.sl_note \in {"", "BE"}
        /\ t.sl_note = "BE" =>
              /\ IsLong(upper(t.side)) \/ IsShort(upper(t.side))
              /\ \A i \in 1..Len(t.entries) :
                    IF IsLong(upper(t.side)) THEN t.entries[i] <= t.sl ELSE t.entries[i] >= t.sl
              /\ \E i \in 1..Len(t.entries) : t.entries[i] = t.sl

\* A stored trade at break-even whose take-profits were edited after the
\* move, next to a trade whose stop was set by hand and carries no note
C22_Witness ==
    \E k, j \in 1..Len(store) :
        /\ store[k].sl_note = "BE"
        /\ Len(store[k].tps) = 3
        /\ store[j].sl_note = ""
        /\ store[j].hit_tps # <<>>
        /\ store[j].sl = 2

\* C23: within one polling cycle the trades of one pair are treated alike:
\* all evaluated, at the same price, or all carried over unchanged.
C23_PairTreatedUniformly ==
    \A k, j \in 1..Len(job.log) :
        LET a == job.log[k]
            b == job.log[j]
        IN  a.pair = b.pair =>
              /\ a.evaluated <=> b.evaluated
              /\ a.evaluated /\ b.evaluated => a.price = b.price
              /\ ~a.evaluated => a.post = a.pre

====
